---- MODULE Spec2Model ----
(***************************************************************************)
(* Model of python_utils/querymethods.py (the three fetch adapters over    *)
(* the appointment table) and python_utils/utils.py (the timing wrapper,   *)
(* the preprocessing and the inference pipeline).                          *)
(*                                                                         *)
(* A cell of a record or of a frame is [k |-> kind, v |-> integer]:        *)
(*   "int"  an integer,        "str" a string (v is its code),             *)
(*   "ts"   a timestamp as stored (v = hours since 1970-01-01 00:00),      *)
(*   "dt"   a datetime64 value, "cat" a category, "null" None / SQL NULL,  *)
(*   "nat"  NaT, "nan" NaN, "undef" a $List element without a value.       *)
(* A frame is [cols |-> sequence of names, rows |-> sequence of rows],     *)
(* a row being the sequence of its cells in the order of cols.             *)
(***************************************************************************)
EXTENDS Integers, Sequences, FiniteSets, TLC

VARIABLES
    table,           \* the stored table: the global's key -> the $List of the record
    earlier,         \* the caller has made a query call before the current / last one
    pc,              \* position of the caller: idle, dyn, glob, returned
    fn,              \* the query function of the current / last call
    lower_age,       \* its argument
    rows,            \* dynamic_sql_query: the collection DynamicSQL returned
    i,               \* dynamic_sql_query: the loop index
    py_rows,         \* dynamic_sql_query: the dicts appended so far
    keys,            \* iris_global_query: the keys still to visit
    processed_data,  \* iris_global_query: the lists appended so far
    failed,          \* a database call of the current call has raised
    result,          \* what the last call gave its caller: a frame or an error
    ppc,             \* position inside the wrapped inference_pipeline
    model_path,      \* inference_pipeline's first argument
    called,          \* the arguments the wrapper handed to the wrapped function
    trace,           \* the steps of the current pipeline run, in order
    model,           \* the loaded booster
    pre,             \* what noshows_data_preprocessing gave: (X, y) or an error
    y_pred,          \* model_inference's result
    start_time,      \* wrapper: time.time() before the call (time is counted from it)
    out              \* what the wrapper gave its caller: (result, elapsed) or an error

vars == << table, earlier, pc, fn, lower_age, rows, i, py_rows, keys, processed_data,
           failed, result, ppc, model_path, called, trace, model, pre, y_pred,
           start_time, out >>

queryVars == << pc, fn, lower_age, rows, i, py_rows, keys, processed_data, failed, result >>
pipeVars  == << ppc, model_path, called, trace, model, pre, y_pred, start_time, out >>

-----------------------------------------------------------------------------
(* Bounds *)

MaxKeys  == 2      \* keys of the global: 1..MaxKeys
MaxAge   == 2      \* stored ages: 1..MaxAge; lower_age ranges over 1..MaxAge+1
MaxClock == 1      \* the call takes 0..MaxClock ticks of time.time()
MaxLen   == 3      \* longest collection handed to the dynamic_sql_query loop
FeatDays == 7      \* days covered by the timestamps given to the preprocessing

-----------------------------------------------------------------------------
(* Cells *)

IntCell(n) == [k |-> "int", v |-> n]
StrCell(n) == [k |-> "str", v |-> n]
TsCell(n)  == [k |-> "ts",  v |-> n]
Undef   == [k |-> "undef", v |-> 0]   \* an element of a $List that holds no value
Null    == [k |-> "null", v |-> 0]
NaT     == [k |-> "nat", v |-> 0]
NaN     == [k |-> "nan", v |-> 0]

SeqToSet(s) == { s[n] : n \in 1..Len(s) }

IndexOf(s, x) == CHOOSE n \in 1..Len(s) : s[n] = x /\ \A m \in 1..(n-1) : s[m] # x

\* The sequence s without the elements of the set drop.
RECURSIVE Without(_, _)
Without(s, drop) ==
    IF s = <<>> THEN <<>>
    ELSE IF Head(s) \in drop THEN Without(Tail(s), drop)
         ELSE <<Head(s)>> \o Without(Tail(s), drop)

\* The columns of the table, in the order of the $List (both column lists).
columns ==
    << "patientid", "appointmentid", "gender", "scheduledday",
       "appointmentday", "age", "neighbourhood", "scholarship",
       "hipertension", "diabetes", "alcoholism", "handcap",
       "sms_received", "showed_up", "date_diff" >>

\* columns.index("age"), as a 1-based position.
idx_filter == IndexOf(columns, "age")

-----------------------------------------------------------------------------
(* The stored table.  A record is the $List kept under its key.            *)

SchedOf(a) == (16920 + a) * 24 + 6 * a
ApptOf(a)  == (16920 + 2 * a) * 24

FullRow(a) ==
    << IntCell(100 + a), IntCell(200 + a), StrCell(a % 2), TsCell(SchedOf(a)),
       TsCell(ApptOf(a)), IntCell(a), StrCell(a), IntCell(0),
       IntCell(a % 2), IntCell(0), IntCell(0), IntCell(0),
       IntCell(1), IntCell(a % 2), IntCell(a) >>

\* A record whose age holds no value.
NullAgeRow == [FullRow(1) EXCEPT ![idx_filter] = Undef]

\* A record whose $List ends before the age position.
ShortRow == SubSeq(FullRow(1), 1, idx_filter - 1)

Records == { FullRow(a) : a \in 1..MaxAge } \cup { NullAgeRow, ShortRow }

Tables == UNION { [1..n -> Records] : n \in 0..MaxKeys }

LowerAges == 1..(MaxAge + 1)

\* The keys of a global in the order the database walks them.
RECURSIVE SortedKeys(_)
SortedKeys(K) ==
    IF K = {} THEN <<>>
    ELSE LET m == CHOOSE x \in K : \A z \in K : x <= z
         IN  <<m>> \o SortedKeys(K \ {m})

\* The value of column position n of a stored record as SQL and the class
\* projection see it: an element without a value, or past the end, is NULL.
Field(lst, n) ==
    IF n <= Len(lst) /\ lst[n].k # "undef" THEN lst[n] ELSE Null

SqlRow(lst) == [n \in 1..Len(columns) |-> Field(lst, n)]

\* SQL's  age >= lower  : unknown, hence not selected, when age is NULL.
SqlAgeAtLeast(lst, lower) ==
    LET a == Field(lst, idx_filter) IN a.k = "int" /\ a.v >= lower

\* The rows "SELECT columns FROM NoShowsAppointments WHERE age >= lower" yields.
RECURSIVE SqlSelect(_, _, _)
SqlSelect(t, ks, lower) ==
    IF ks = <<>> THEN <<>>
    ELSE LET rest == SqlSelect(t, Tail(ks), lower)
         IN  IF SqlAgeAtLeast(t[Head(ks)], lower)
             THEN <<SqlRow(t[Head(ks)])>> \o rest
             ELSE rest

\* An entry of the collection DynamicSQL returns: an object with one member
\* per column, or an empty entry (None or '').
EmptyEntry == [e |-> "empty", members |-> <<>>]
ObjEntry(r) == [e |-> "obj", members |-> [n \in 1..Len(columns) |-> <<columns[n], r[n]>>]]

\* MockPackage.MockInference.DynamicSQL(lower): the records of age >= lower,
\* one object each, in a collection whose first index is base.
DynamicSQL(t, lower, base) ==
    LET sel == SqlSelect(t, SortedKeys(DOMAIN t), lower)
    IN  [base |-> base, items |-> [n \in 1..Len(sel) |-> ObjEntry(sel[n])]]

\* rows._Size() and rows._Get(i): an index outside the collection gives ''.
Size(c) == Len(c.items)
Get(c, n) ==
    IF n >= c.base /\ n < c.base + Len(c.items)
    THEN c.items[n - c.base + 1]
    ELSE EmptyEntry

\* row._ToJSON() followed by json.loads: the dict of the object's members,
\* keys in the order of the JSON text.
ToJSON(entry) == entry.members
json_loads(text) ==
    [ks |-> [n \in 1..Len(text) |-> text[n][1]],
     val |-> [name \in { text[n][1] : n \in 1..Len(text) } |->
                 text[CHOOSE n \in 1..Len(text) :
                        text[n][1] = name
                        /\ \A m \in (n+1)..Len(text) : text[m][1] # name][2]]]

\* %SYS.Python.ToList(raw_val): the Python list of a $List; an element
\* without a value becomes None.
ToList(raw_val) ==
    [n \in 1..Len(raw_val) |-> IF raw_val[n].k = "undef" THEN Null ELSE raw_val[n]]

-----------------------------------------------------------------------------
(* What a call gives its caller.                                           *)

Frame(cols, rs) == [kind |-> "frame", cols |-> cols, rows |-> rs, err |-> ""]
Raised(e)       == [kind |-> "error", cols |-> <<>>, rows |-> <<>>, err |-> e]
NoResult        == [kind |-> "none",  cols |-> <<>>, rows |-> <<>>, err |-> ""]

\* The keys of a list of dicts in the order of their first appearance.
RECURSIVE KeysInOrder(_, _)
KeysInOrder(ds, seen) ==
    IF ds = <<>> THEN seen
    ELSE KeysInOrder(Tail(ds), seen \o Without(Head(ds).ks, SeqToSet(seen)))

\* pd.DataFrame(py_rows) for a list of dicts: the columns are the keys met,
\* so an empty list gives a frame without columns; a key a dict lacks is NaN.
DataFrameFromDicts(ds) ==
    LET cols == KeysInOrder(ds, <<>>)
    IN  Frame(cols,
              [r \in 1..Len(ds) |->
                  [c \in 1..Len(cols) |->
                      IF cols[c] \in DOMAIN ds[r].val THEN ds[r].val[cols[c]] ELSE NaN]])

\* pd.DataFrame(data, columns=columns) for a list of lists: an empty list gives
\* an empty frame that has the columns; shorter lists are padded with None to
\* the longest, which must be as long as columns.
DataFrameFromLists(data, cols) ==
    IF data = <<>> THEN Frame(cols, <<>>)
    ELSE IF (\E r \in 1..Len(data) : Len(data[r]) > Len(cols))
            \/ (\A q \in 1..Len(data) : Len(data[q]) < Len(cols))
         THEN Raised("ValueError")
         ELSE Frame(cols,
                    [r \in 1..Len(data) |->
                        [c \in 1..Len(cols) |->
                            IF c <= Len(data[r]) THEN data[r][c] ELSE Null]])

-----------------------------------------------------------------------------
(* dynamic_sql_query                                                       *)

\* py_rows kept from the call before.
KeptPyRows(old) == old

\* py_rows = []
NewPyRows(old) == <<>>

\* The last index of  range(0, rows._Size()).
LastIndexExclusive(c) == Size(c) - 1

\* The last index of  range(0, rows._Size() + 1).
LastIndex(c) == Size(c)

\* The body of the loop for one entry: skip None and '', else append the dict.
DynVisit(acc, row) ==
    IF row.e = "empty" THEN acc ELSE Append(acc, json_loads(ToJSON(row)))

\* The whole loop from index n on.
RECURSIVE DynLoop(_, _, _)
DynLoop(c, n, acc) ==
    IF n > LastIndex(c) THEN acc ELSE DynLoop(c, n + 1, DynVisit(acc, Get(c, n)))

\* The frame of a whole call that no database call fails.
dynamic_sql_query(t, lower, base) ==
    DataFrameFromDicts(DynLoop(DynamicSQL(t, lower, base), 0, NewPyRows(<<>>)))

-----------------------------------------------------------------------------
(* iris_sql_query                                                          *)

iris_sql_query(t, lower) ==
    DataFrameFromLists(SqlSelect(t, SortedKeys(DOMAIN t), lower), columns)

-----------------------------------------------------------------------------
(* iris_global_query                                                       *)

\* processed_data = []
NewProcessedData(old) == <<>>

\* python_list[idx_filter] >= lower_age in Python: an index past the end and a
\* comparison of None (or a string) with an int raise.
FilterError(python_list) ==
    IF Len(python_list) < idx_filter THEN "IndexError"
    ELSE IF python_list[idx_filter].k # "int" THEN "TypeError"
    ELSE ""

\* The filter with > in place of >=.
AgeAbove(python_list, lower) == python_list[idx_filter].v > lower

AgeAtLeast(python_list, lower) == python_list[idx_filter].v >= lower

\* The body of the loop with a record that cannot be filtered skipped.
GlobalVisitSkipping(acc, python_list, lower) ==
    [err |-> "",
     data |-> IF FilterError(python_list) = "" /\ python_list[idx_filter].v >= lower
              THEN Append(acc, python_list) ELSE acc]

\* The body of the loop for one key: [err, data] after it.
GlobalVisit(acc, python_list, lower) ==
    IF FilterError(python_list) # ""
    THEN [err |-> FilterError(python_list), data |-> acc]
    ELSE [err |-> "",
          data |-> IF AgeAtLeast(python_list, lower) THEN Append(acc, python_list) ELSE acc]

\* The whole loop over the keys ks.
RECURSIVE GlobalLoop(_, _, _, _)
GlobalLoop(t, ks, lower, acc) ==
    IF ks = <<>> THEN DataFrameFromLists(acc, columns)
    ELSE LET v == GlobalVisit(acc, ToList(t[Head(ks)]), lower)
         IN  IF v.err # "" THEN Raised(v.err)
             ELSE GlobalLoop(t, Tail(ks), lower, v.data)

\* The frame or the error of a whole call that no database call fails.
iris_global_query(t, lower) ==
    GlobalLoop(t, SortedKeys(DOMAIN t), lower, NewProcessedData(<<>>))

-----------------------------------------------------------------------------
(* Frames: the pandas operations noshows_data_preprocessing uses.          *)

HasCols(f, names) == names \subseteq SeqToSet(f.cols)

\* The cells of row whose column is not in names.
RECURSIVE RowWithout(_, _, _)
RowWithout(row, cols, names) ==
    IF cols = <<>> THEN <<>>
    ELSE IF Head(cols) \in names THEN RowWithout(Tail(row), Tail(cols), names)
         ELSE <<Head(row)>> \o RowWithout(Tail(row), Tail(cols), names)

\* drop whose result is not kept.
KeepCols(f, names) == [cols |-> f.cols, rows |-> f.rows]

\* df.drop(columns=names), the columns being there.
DropCols(f, names) ==
    [cols |-> Without(f.cols, names),
     rows |-> [r \in 1..Len(f.rows) |-> RowWithout(f.rows[r], f.cols, names)]]

Cell(f, r, name) == f.rows[r][IndexOf(f.cols, name)]

\* df[name] = vals : replaces the column, or appends it as the last one.
SetCol(f, name, vals) ==
    IF name \in SeqToSet(f.cols)
    THEN [cols |-> f.cols,
          rows |-> [r \in 1..Len(f.rows) |->
                       [f.rows[r] EXCEPT ![IndexOf(f.cols, name)] = vals[r]]]]
    ELSE [cols |-> Append(f.cols, name),
          rows |-> [r \in 1..Len(f.rows) |-> Append(f.rows[r], vals[r])]]

\* astype('category') and astype('datetime64[ns]') of one cell.
AsCategory(c) == IF c.k \in {"null", "nan", "undef"} THEN NaN ELSE [k |-> "cat", v |-> c.v]
AsDatetime(c) == IF c.k = "ts" THEN [k |-> "dt", v |-> c.v] ELSE NaT

AsTypeCell(name, c) ==
    IF name \in {"gender", "neighbourhood"} THEN AsCategory(c)
    ELSE IF name \in {"scheduledday", "appointmentday"} THEN AsDatetime(c)
    ELSE c

AsType(f) ==
    [cols |-> f.cols,
     rows |-> [r \in 1..Len(f.rows) |->
                  [c \in 1..Len(f.cols) |-> AsTypeCell(f.cols[c], f.rows[r][c])]]]

\* The calendar date of a day number (days since 1970-01-01).
CivilFromDays(days) ==
    LET z   == days + 719468
        era == z \div 146097
        doe == z - era * 146097
        yoe == (doe - (doe \div 1460) + (doe \div 36524) - (doe \div 146096)) \div 365
        doy == doe - (365 * yoe + (yoe \div 4) - (yoe \div 100))
        mp  == (5 * doy + 2) \div 153
        d   == doy - ((153 * mp + 2) \div 5) + 1
        m   == IF mp < 10 THEN mp + 3 ELSE mp - 9
    IN  [year |-> yoe + era * 400 + (IF m <= 2 THEN 1 ELSE 0), month |-> m, day |-> d]

\* The .dt accessors of a datetime64 cell; NaT gives NaN.
DtYear(c)  == IF c.k = "dt" THEN IntCell(CivilFromDays(c.v \div 24).year) ELSE NaN
DtMonth(c) == IF c.k = "dt" THEN IntCell(CivilFromDays(c.v \div 24).month) ELSE NaN
DtDay(c)   == IF c.k = "dt" THEN IntCell(CivilFromDays(c.v \div 24).day) ELSE NaN
DtDayOfWeek(c) == IF c.k = "dt" THEN IntCell(((c.v \div 24) + 3) % 7) ELSE NaN
DtHour(c)  == IF c.k = "dt" THEN IntCell(c.v % 24) ELSE NaN

\* (dayofweek >= 5).astype("int8") : a comparison with NaN is False.
IsWeekend(dow) == IF dow.k = "int" /\ dow.v >= 5 THEN IntCell(1) ELSE IntCell(0)

\* pd.cut(hour, bins, labels): the intervals are open on the left and closed
\* on the right; a value in no interval, and NaN, give NaN.
bins   == << -1, 6, 12, 17, 24 >>
labels == << 0, 1, 2, 3 >>

\* Intervals closed on the left and open on the right.
InBinLeftClosed(x, n) == bins[n] <= x /\ x < bins[n + 1]

InBin(x, n) == bins[n] < x /\ x <= bins[n + 1]

Cut(hour) ==
    IF hour.k = "int" /\ \E n \in 1..Len(labels) : InBin(hour.v, n)
    THEN IntCell(labels[CHOOSE n \in 1..Len(labels) : InBin(hour.v, n)])
    ELSE NaN

date_cols == << "scheduledday", "appointmentday" >>

DerivedSuffixes ==
    << "_year", "_month", "_day", "_dow", "_hour", "_is_weekend", "_part_of_day" >>

\* The value of derived column number n (utils.py lines 30 to 43) for a
\* datetime64 cell.
Derived(n, c) ==
    CASE n = 1 -> DtYear(c)
      [] n = 2 -> DtMonth(c)
      [] n = 3 -> DtDay(c)
      [] n = 4 -> DtDayOfWeek(c)
      [] n = 5 -> DtHour(c)
      [] n = 6 -> IsWeekend(DtDayOfWeek(c))
      [] n = 7 -> Cut(DtHour(c))

\* The first n assignments of the loop body for the date column col.
RECURSIVE AddDerived(_, _, _)
AddDerived(f, col, n) ==
    IF n = 0 THEN f
    ELSE LET g == AddDerived(f, col, n - 1)
         IN  SetCol(g, col \o DerivedSuffixes[n],
                    [r \in 1..Len(g.rows) |-> Derived(n, Cell(g, r, col))])

\* astype("int8") of the part-of-day categories raises when one is NaN.
PartOfDayMissing(f, col) ==
    \E r \in 1..Len(f.rows) : Cut(DtHour(Cell(f, r, col))).k = "nan"

PreOk(X, y)   == [kind |-> "ok", cols |-> X.cols, rows |-> X.rows, y |-> y, err |-> ""]
PreRaised(e)  == [kind |-> "error", cols |-> <<>>, rows |-> <<>>, y |-> <<>>, err |-> e]
NoPre         == [kind |-> "none", cols |-> <<>>, rows |-> <<>>, y |-> <<>>, err |-> ""]

noshows_data_preprocessing(df) ==
    IF ~HasCols(df, {"appointmentid", "patientid"}) THEN PreRaised("KeyError")
    ELSE LET d1 == DropCols(df, {"appointmentid", "patientid"}) IN
    IF ~HasCols(d1, {"gender", "neighbourhood", "scheduledday", "appointmentday"})
    THEN PreRaised("KeyError")
    ELSE LET d2 == AsType(d1) IN
    IF PartOfDayMissing(d2, date_cols[1]) THEN PreRaised("ValueError")
    ELSE LET d3 == AddDerived(d2, date_cols[1], Len(DerivedSuffixes)) IN
    IF PartOfDayMissing(d3, date_cols[2]) THEN PreRaised("ValueError")
    ELSE LET d4 == AddDerived(d3, date_cols[2], Len(DerivedSuffixes))
             d5 == DropCols(d4, SeqToSet(date_cols))
         IN
    IF ~HasCols(d5, {"gender", "neighbourhood"}) THEN PreRaised("KeyError")
    ELSE LET d6 == DropCols(d5, {"gender", "neighbourhood"}) IN
    IF ~HasCols(d6, {"showed_up"}) THEN PreRaised("KeyError")
    ELSE PreOk(DropCols(d6, {"showed_up"}),
               [r \in 1..Len(d6.rows) |-> Cell(d6, r, "showed_up")])

-----------------------------------------------------------------------------
(* The model file, the booster and the wrapper.                            *)

ModelPaths == { "model.txt", "missing.txt" }
ModelFiles == { "model.txt" }

NoModel == [loaded |-> FALSE, file |-> ""]

\* lgb.Booster(model_file=model_path): raises when the file cannot be read.
load_lightgbm_model(path) ==
    IF path \in ModelFiles THEN [loaded |-> TRUE, file |-> path] ELSE NoModel

RECURSIVE RowSum(_)
RowSum(row) == IF row = <<>> THEN 0 ELSE Head(row).v + RowSum(Tail(row))

\* model.predict(X): one score per row of X, a function of the row's features.
model_inference(m, X) == [r \in 1..Len(X.rows) |-> (RowSum(X.rows[r]) + Len(X.cols)) % 2]

\* What the wrapper gives its caller.
OutPair(res, elapsed) == [kind |-> "pair", result |-> res, elapsed |-> elapsed, err |-> ""]
OutRaised(e)          == [kind |-> "error", result |-> <<>>, elapsed |-> 0, err |-> e]
NoOut                 == [kind |-> "none", result |-> <<>>, elapsed |-> 0, err |-> ""]

\* return elapsed_time alone.
WrapperReturnsElapsedOnly(res, start, end) == OutPair(<<>>, end - start)

\* return result, elapsed_time
WrapperReturn(res, start, end) == OutPair(res, end - start)

\* The next step with the error of a step swallowed.
AfterStepIgnoringErrors(step, ok) ==
    CASE step = "load" -> "prep"
      [] step = "prep" -> "pred"
      [] step = "pred" -> "ret"

\* The step inference_pipeline goes to after a step that ended with ok.
AfterStep(step, ok) ==
    IF ~ok THEN "done"
    ELSE CASE step = "load" -> "prep"
           [] step = "prep" -> "pred"
           [] step = "pred" -> "ret"

-----------------------------------------------------------------------------
(* The state machine.                                                      *)

NoRows == [base |-> 0, items |-> <<>>]

PipeIdle ==
    /\ ppc = "idle"
    /\ model_path = ""
    /\ called = <<>>
    /\ trace = <<>>
    /\ model = NoModel
    /\ pre = NoPre
    /\ y_pred = <<>>
    /\ start_time = 0
    /\ out = NoOut

QueryIdle ==
    /\ pc = "idle"
    /\ fn = ""
    /\ lower_age = 0
    /\ rows = NoRows
    /\ i = 0
    /\ py_rows = <<>>
    /\ keys = <<>>
    /\ processed_data = <<>>
    /\ failed = FALSE
    /\ result = NoResult

Init ==
    /\ table \in Tables
    /\ earlier = FALSE
    /\ QueryIdle
    /\ PipeIdle

\* The caller fetches, then optionally preprocesses and predicts: a query
\* function is called while no query is under way and before the frame is
\* handed on; the frame is handed on while nothing else is under way.
CanFetch == pc \in {"idle", "returned"} /\ ppc = "idle"
CanUse   == pc = "returned" /\ result.kind = "frame" /\ ppc \in {"idle", "pre_done", "done"}

\* A call that starts after a call has returned is not the caller's first.
CountCall == earlier' = (pc = "returned")

\* dynamic_sql_query(lower_age), lines 6 and 7: the call of DynamicSQL, which
\* may raise, and the empty py_rows.
CallDynamic ==
    /\ CanFetch
    /\ CountCall
    /\ \E la \in LowerAges, base \in {0, 1}, ok \in BOOLEAN :
          /\ fn' = "dynamic"
          /\ lower_age' = la
          /\ i' = 0
          /\ py_rows' = NewPyRows(py_rows)
          /\ keys' = <<>>
          /\ processed_data' = <<>>
          /\ failed' = ~ok
          /\ rows' = IF ok THEN DynamicSQL(table, la, base) ELSE NoRows
          /\ pc' = IF ok THEN "dyn" ELSE "returned"
          /\ result' = IF ok THEN NoResult ELSE Raised("DatabaseError")
    /\ UNCHANGED table
    /\ UNCHANGED pipeVars

\* One turn of the loop of lines 8 to 15; _ToJSON may raise.
DynStep ==
    /\ pc = "dyn"
    /\ i <= LastIndex(rows)
    /\ \E ok \in BOOLEAN :
          LET row == Get(rows, i) IN
          IF row.e # "empty" /\ ~ok
          THEN /\ failed' = TRUE
               /\ result' = Raised("DatabaseError")
               /\ pc' = "returned"
               /\ UNCHANGED << i, py_rows >>
          ELSE /\ py_rows' = DynVisit(py_rows, row)
               /\ i' = i + 1
               /\ UNCHANGED << failed, result, pc >>
    /\ UNCHANGED << table, earlier, fn, lower_age, rows, keys, processed_data >>
    /\ UNCHANGED pipeVars

\* Lines 17 and 18.
DynReturn ==
    /\ pc = "dyn"
    /\ i > LastIndex(rows)
    /\ result' = DataFrameFromDicts(py_rows)
    /\ pc' = "returned"
    /\ UNCHANGED << table, earlier, fn, lower_age, rows, i, py_rows, keys, processed_data, failed >>
    /\ UNCHANGED pipeVars

\* iris_sql_query(lower_age): prepare and execute may raise.
CallSql ==
    /\ CanFetch
    /\ CountCall
    /\ \E la \in LowerAges, ok \in BOOLEAN :
          /\ fn' = "sql"
          /\ lower_age' = la
          /\ failed' = ~ok
          /\ result' = IF ok THEN iris_sql_query(table, la) ELSE Raised("DatabaseError")
    /\ pc' = "returned"
    /\ rows' = NoRows
    /\ i' = 0
    /\ py_rows' = <<>>
    /\ keys' = <<>>
    /\ processed_data' = <<>>
    /\ UNCHANGED table
    /\ UNCHANGED pipeVars

\* iris_global_query(lower_age), lines 34 to 47: gref and keys may raise.
CallGlobal ==
    /\ CanFetch
    /\ CountCall
    /\ \E la \in LowerAges, ok \in BOOLEAN :
          /\ fn' = "global"
          /\ lower_age' = la
          /\ failed' = ~ok
          /\ keys' = IF ok THEN SortedKeys(DOMAIN table) ELSE <<>>
          /\ pc' = IF ok THEN "glob" ELSE "returned"
          /\ result' = IF ok THEN NoResult ELSE Raised("DatabaseError")
    /\ processed_data' = NewProcessedData(processed_data)
    /\ rows' = NoRows
    /\ i' = 0
    /\ py_rows' = <<>>
    /\ UNCHANGED table
    /\ UNCHANGED pipeVars

\* One turn of the loop of lines 47 to 52; the read and ToList may raise.
GlobStep ==
    /\ pc = "glob"
    /\ keys # <<>>
    /\ \E ok \in BOOLEAN :
          LET v == GlobalVisit(processed_data, ToList(table[Head(keys)]), lower_age) IN
          IF ~ok \/ v.err # ""
          THEN /\ failed' = (failed \/ ~ok)
               /\ result' = Raised(IF ~ok THEN "DatabaseError" ELSE v.err)
               /\ pc' = "returned"
               /\ UNCHANGED << keys, processed_data >>
          ELSE /\ processed_data' = v.data
               /\ keys' = Tail(keys)
               /\ UNCHANGED << failed, result, pc >>
    /\ UNCHANGED << table, earlier, fn, lower_age, rows, i, py_rows >>
    /\ UNCHANGED pipeVars

\* Lines 53 and 54.
GlobReturn ==
    /\ pc = "glob"
    /\ keys = <<>>
    /\ result' = DataFrameFromLists(processed_data, columns)
    /\ pc' = "returned"
    /\ UNCHANGED << table, earlier, fn, lower_age, rows, i, py_rows, keys, processed_data, failed >>
    /\ UNCHANGED pipeVars

\* The caller applies noshows_data_preprocessing to the frame it fetched.
CallPreprocessing ==
    /\ CanUse
    /\ pre' = noshows_data_preprocessing(result)
    /\ ppc' = "pre_done"
    /\ model_path' = ""
    /\ called' = <<>>
    /\ trace' = <<>>
    /\ model' = NoModel
    /\ y_pred' = <<>>
    /\ start_time' = 0
    /\ out' = NoOut
    /\ UNCHANGED << table, earlier >>
    /\ UNCHANGED queryVars

\* The caller calls inference_pipeline(model_path, df) on the frame it fetched:
\* the wrapper reads the clock and calls the wrapped function (lines 9 and 10).
PipeCall ==
    /\ CanUse
    /\ \E path \in ModelPaths :
          /\ model_path' = path
          /\ called' = << path, result >>
    /\ start_time' = 0
    /\ trace' = << "call" >>
    /\ ppc' = "load"
    /\ model' = NoModel
    /\ pre' = NoPre
    /\ y_pred' = <<>>
    /\ out' = NoOut
    /\ UNCHANGED << table, earlier >>
    /\ UNCHANGED queryVars

\* Line 62.
PipeLoad ==
    /\ ppc = "load"
    /\ trace' = Append(trace, "load")
    /\ model' = load_lightgbm_model(called[1])
    /\ ppc' = AfterStep("load", model'.loaded)
    /\ out' = IF model'.loaded THEN out ELSE OutRaised("LightGBMError")
    /\ UNCHANGED << model_path, called, pre, y_pred, start_time >>
    /\ UNCHANGED << table, earlier >>
    /\ UNCHANGED queryVars

\* Line 63.
PipePrep ==
    /\ ppc = "prep"
    /\ trace' = Append(trace, "prep")
    /\ pre' = noshows_data_preprocessing(called[2])
    /\ ppc' = AfterStep("prep", pre'.kind = "ok")
    /\ out' = IF pre'.kind = "ok" THEN out ELSE OutRaised(pre'.err)
    /\ UNCHANGED << model_path, called, model, y_pred, start_time >>
    /\ UNCHANGED << table, earlier >>
    /\ UNCHANGED queryVars

\* Line 64: predict may raise.
PipePred ==
    /\ ppc = "pred"
    /\ trace' = Append(trace, "pred")
    /\ \E ok \in BOOLEAN :
          /\ y_pred' = IF ok THEN model_inference(model, pre) ELSE <<>>
          /\ ppc' = AfterStep("pred", ok)
          /\ out' = IF ok THEN out ELSE OutRaised("LightGBMError")
    /\ UNCHANGED << model_path, called, model, pre, start_time >>
    /\ UNCHANGED << table, earlier >>
    /\ UNCHANGED queryVars

\* Line 65, then the wrapper's lines 11 to 13.
PipeReturn ==
    /\ ppc = "ret"
    /\ \E t \in start_time..(start_time + MaxClock) :
          out' = WrapperReturn(y_pred, start_time, t)
    /\ trace' = Append(trace, "return")
    /\ ppc' = "done"
    /\ UNCHANGED << model_path, called, model, pre, y_pred, start_time >>
    /\ UNCHANGED << table, earlier >>
    /\ UNCHANGED queryVars

Next ==
    \/ CallDynamic
    \/ DynStep
    \/ DynReturn
    \/ CallSql
    \/ CallGlobal
    \/ GlobStep
    \/ GlobReturn
    \/ CallPreprocessing
    \/ PipeCall
    \/ PipeLoad
    \/ PipePrep
    \/ PipePred
    \/ PipeReturn

Spec == Init /\ [][Next]_vars

-----------------------------------------------------------------------------
(* The loop of dynamic_sql_query over any collection.                      *)

Entries == { EmptyEntry } \cup { ObjEntry(SqlRow(FullRow(a))) : a \in 1..MaxAge }

Collections ==
    { [base |-> b, items |-> it] :
        b \in {0, 1}, it \in UNION { [1..n -> Entries] : n \in 0..MaxLen } }

InitRows ==
    /\ table = << >>
    /\ earlier = FALSE
    /\ pc = "dyn"
    /\ fn = "dynamic"
    /\ lower_age = 1
    /\ rows \in Collections
    /\ i = 0
    /\ py_rows = <<>>
    /\ keys = <<>>
    /\ processed_data = <<>>
    /\ failed = FALSE
    /\ result = NoResult
    /\ PipeIdle

NextRows ==
    \/ DynStep
    \/ DynReturn

SpecRows == InitRows /\ [][NextRows]_vars

-----------------------------------------------------------------------------
(* noshows_data_preprocessing over the timestamps of FeatDays days, and    *)
(* over a record without a timestamp.                                      *)

FeatTimes == { (16920 + d) * 24 + h : d \in 0..(FeatDays - 1), h \in 0..23 }

FeatRecords ==
    { [FullRow(1) EXCEPT ![IndexOf(columns, "scheduledday")] = TsCell(t)] : t \in FeatTimes }
    \cup { [FullRow(1) EXCEPT ![IndexOf(columns, "scheduledday")] = Undef] }

InitFeat ==
    /\ \E rec \in FeatRecords : table = << rec >>
    /\ earlier = FALSE
    /\ pc = "returned"
    /\ fn = "sql"
    /\ lower_age = 1
    /\ rows = NoRows
    /\ i = 0
    /\ py_rows = <<>>
    /\ keys = <<>>
    /\ processed_data = <<>>
    /\ failed = FALSE
    /\ result = iris_sql_query(table, lower_age)
    /\ PipeIdle

NextFeat == CallPreprocessing

SpecFeat == InitFeat /\ [][NextFeat]_vars

-----------------------------------------------------------------------------
(* Properties.                                                             *)

GotFrame == pc = "returned" /\ result.kind = "frame"

\* The keys of the stored records whose age is an integer >= lower.
Matching(t, lower) ==
    { k \in DOMAIN t :
        /\ Len(t[k]) >= idx_filter
        /\ t[k][idx_filter].k = "int"
        /\ t[k][idx_filter].v >= lower }

\* The stored record under key k, column by column.
Stored(t, k) ==
    [c \in SeqToSet(columns) |->
        LET n == IndexOf(columns, c)
        IN  IF n <= Len(t[k]) /\ t[k][n].k # "undef" THEN t[k][n] ELSE Null]

\* Row r of a frame, column by column.
RowFn(f, r) == [c \in SeqToSet(f.cols) |-> Cell(f, r, c)]

Occurrences(f, row) == Cardinality({ r \in 1..Len(f.rows) : RowFn(f, r) = row })

SameFrame(a, b) ==
    /\ a.kind = "frame"
    /\ b.kind = "frame"
    /\ SeqToSet(a.cols) = SeqToSet(b.cols)
    /\ Len(a.rows) = Len(b.rows)
    /\ \A r \in 1..Len(a.rows) : Occurrences(a, RowFn(a, r)) = Occurrences(b, RowFn(a, r))

\* C2: for the same stored table and the same lower_age the three query
\* functions return frames with the same columns and the same rows, also when
\* no record matches and when a stored record has no age.
Interchangeable ==
    (pc = "returned" /\ ~failed) =>
        /\ SameFrame(result, dynamic_sql_query(table, lower_age, 0))
        /\ SameFrame(result, iris_sql_query(table, lower_age))
        /\ SameFrame(result, iris_global_query(table, lower_age))

\* C3: noshows_data_preprocessing applied to the frame a query function
\* returned completes without an error and gives X and y with as many rows as
\* the frame, also when lower_age matches no record.
PreprocessingAcceptsEveryFrame ==
    pre.kind # "none" =>
        /\ pre.kind = "ok"
        /\ Len(pre.rows) = Len(result.rows)
        /\ Len(pre.y) = Len(result.rows)

\* The frame the call under way or just made returns when it is the only call.
AloneFrame ==
    CASE fn = "dynamic" -> dynamic_sql_query(table, lower_age, rows.base)
      [] fn = "sql"     -> iris_sql_query(table, lower_age)
      [] fn = "global"  -> iris_global_query(table, lower_age)

\* C4: no step of a query function changes the stored table, and in any
\* sequence of calls a call that returns a frame returns the frame it returns
\* when it is the only call made.
StatelessCalls ==
    /\ [][table' = table]_vars
    /\ [](GotFrame => result = AloneFrame)

\* A second call has returned a frame with a row.
SecondCallReturned ==
    /\ GotFrame
    /\ earlier
    /\ fn = "dynamic"
    /\ Len(result.rows) >= 1

IsPrefix(s, t) == Len(s) <= Len(t) /\ \A n \in 1..Len(s) : s[n] = t[n]

PipelineSteps == << "call", "load", "prep", "pred", "return" >>

\* C5: a run of inference_pipeline loads the model, preprocesses and predicts,
\* each at most once and in that order; it predicts only after the model was
\* loaded and the preprocessing gave (X, y), exactly once in a run that
\* returns; after a step that raised no later step is made and the caller
\* gets the error.
LinearPipeline ==
    /\ IsPrefix(trace, PipelineSteps)
    /\ Len(trace) >= 3 => model.loaded
    /\ Len(trace) >= 4 => (model.loaded /\ pre.kind = "ok")
    /\ (ppc = "done" /\ out.kind = "pair") => trace = PipelineSteps
    /\ ppc = "done" =>
          /\ out.kind \in {"pair", "error"}
          /\ ~model.loaded => (out.kind = "error" /\ trace = SubSeq(PipelineSteps, 1, 2))
          /\ (model.loaded /\ pre.kind # "ok") =>
                (out.kind = "error" /\ trace = SubSeq(PipelineSteps, 1, 3))
          /\ out.kind = "error" => Len(trace) <= 4

\* A run has ended with the error of the preprocessing, the model loaded.
PipelineStoppedAtPreprocessing ==
    /\ ppc = "done"
    /\ out.kind = "error"
    /\ model.loaded
    /\ trace = SubSeq(PipelineSteps, 1, 3)

\* C6: the wrapper calls the wrapped function once with the caller's
\* arguments; when it returns, the caller gets (result, elapsed_time) whose
\* first element is the prediction of the model on the X preprocessed from the
\* caller's frame; when it raises, the caller gets the error and no pair.
TimedResult ==
    /\ trace # <<>> =>
          /\ called = << model_path, result >>
          /\ Cardinality({ n \in 1..Len(trace) : trace[n] = "call" }) = 1
    /\ (ppc = "done" /\ out.kind = "pair") =>
          /\ out.result = y_pred
          /\ pre = noshows_data_preprocessing(result)
          /\ out.result = model_inference(model, pre)
          /\ Len(out.result) = Len(result.rows)
    /\ (ppc = "done" /\ out.kind # "pair") =>
          /\ out.kind = "error"
          /\ out.result = <<>>

\* A run has returned the pair for a frame of two rows.
PairReturned ==
    /\ ppc = "done"
    /\ out.kind = "pair"
    /\ Len(out.result) = 2

Dropped ==
    { "appointmentid", "patientid", "gender", "neighbourhood",
      "scheduledday", "appointmentday", "showed_up" }

DerivedNames ==
    [n \in 1..(2 * Len(DerivedSuffixes)) |->
        IF n <= Len(DerivedSuffixes)
        THEN "scheduledday" \o DerivedSuffixes[n]
        ELSE "appointmentday" \o DerivedSuffixes[n - Len(DerivedSuffixes)]]

\* C7: for a frame that has the 15 columns, the columns of X are the input's
\* columns without the seven dropped ones followed by the 14 derived ones,
\* whatever the rows hold; y is the showed_up column; X and y have the rows of
\* the input, in its order.
PreprocessingColumns ==
    (pre.kind = "ok" /\ SeqToSet(result.cols) = SeqToSet(columns)) =>
        /\ pre.cols = Without(result.cols, Dropped) \o DerivedNames
        /\ SeqToSet(pre.cols) \cap Dropped = {}
        /\ Len(pre.rows) = Len(result.rows)
        /\ Len(pre.y) = Len(result.rows)
        /\ \A r \in 1..Len(result.rows) :
              /\ pre.y[r] = Cell(result, r, "showed_up")
              /\ Len(pre.rows[r]) = Len(pre.cols)
              /\ \A c \in SeqToSet(result.cols) \ Dropped :
                    pre.rows[r][IndexOf(pre.cols, c)] = Cell(result, r, c)

\* A frame of two different records has been preprocessed.
TwoRowsPreprocessed ==
    /\ pre.kind = "ok"
    /\ Len(pre.rows) = 2
    /\ pre.y[1] # pre.y[2]

\* Cell of row r of X.
XCell(r, name) == pre.rows[r][IndexOf(pre.cols, name)]

\* The part of day the hour h belongs to.
PartOfDay(h) ==
    IF h <= 6 THEN 0 ELSE IF h <= 12 THEN 1 ELSE IF h <= 17 THEN 2 ELSE 3

\* C8: for a record with valid timestamps the preprocessing gives a part of
\* day for both dates: 0 for the hours 0..6, 1 for 7..12, 2 for 13..17, 3 for
\* 18..23; and is_weekend is 1 exactly when the day of week is 5 or 6.
PartOfDayAndWeekend ==
    (pre.kind # "none"
       /\ \A r \in 1..Len(result.rows) :
             \A d \in SeqToSet(date_cols) : Cell(result, r, d).k = "ts") =>
        /\ pre.kind = "ok"
        /\ \A r \in 1..Len(result.rows) : \A d \in SeqToSet(date_cols) :
              /\ XCell(r, d \o "_hour").v = Cell(result, r, d).v % 24
              /\ XCell(r, d \o "_part_of_day") = IntCell(PartOfDay(XCell(r, d \o "_hour").v))
              /\ XCell(r, d \o "_dow").v \in 0..6
              /\ XCell(r, d \o "_is_weekend")
                   = IntCell(IF XCell(r, d \o "_dow").v \in {5, 6} THEN 1 ELSE 0)

\* A timestamp of six o'clock on a Saturday has been preprocessed.
NightOnSaturday ==
    /\ pre.kind = "ok"
    /\ XCell(1, "scheduledday_hour").v = 6
    /\ XCell(1, "scheduledday_part_of_day").v = 0
    /\ XCell(1, "scheduledday_dow").v = 5
    /\ XCell(1, "scheduledday_is_weekend").v = 1

\* The dicts of the entries of c that are not empty and lie at an index < n,
\* in the order of the index.
RECURSIVE DictsBelow(_, _)
DictsBelow(c, n) ==
    IF n <= c.base \/ c.items = <<>> THEN <<>>
    ELSE LET last == IF n - c.base < Len(c.items) THEN n - c.base ELSE Len(c.items)
             e    == c.items[last]
             rest == DictsBelow(c, c.base + last - 1)
         IN  IF e.e = "empty" THEN rest
             ELSE Append(rest,
                         [ks |-> columns,
                          val |-> [name \in SeqToSet(columns) |->
                                      e.members[IndexOf(columns, name)][2]]])

\* C9: the loop of dynamic_sql_query visits the indexes 0 .. Size in order and
\* keeps one dict per entry that is not None or '', so the frame has exactly
\* one row per such entry, in the order of the index, whether the collection
\* starts at index 0 or at index 1.
OneRowPerEntry ==
    /\ pc = "dyn" =>
          /\ i \in 0..(Size(rows) + 1)
          /\ py_rows = DictsBelow(rows, i)
    /\ (GotFrame /\ fn = "dynamic") =>
          /\ i = Size(rows) + 1
          /\ Len(result.rows) = Len(DictsBelow(rows, i))
          /\ \A r \in 1..Len(result.rows) : RowFn(result, r) = DictsBelow(rows, i)[r].val

\* The loop has returned the two objects of a collection of three entries that
\* starts at index 1 and ends with an object.
LastEntryOfOneBasedKept ==
    /\ GotFrame
    /\ rows.base = 1
    /\ Len(rows.items) = 3
    /\ rows.items[2].e = "empty"
    /\ rows.items[3].e = "obj"
    /\ Len(result.rows) = 2

\* A stored record the filter of iris_global_query cannot be applied to.
Unfilterable(lst) == Len(lst) < idx_filter \/ lst[idx_filter].k = "undef"

\* C10: a call in which a database call failed, and a call of
\* iris_global_query with a stored record that has no age position or no age,
\* give the caller the error and no frame of the records read so far.
ErrorsPropagate ==
    pc = "returned" =>
        /\ failed => result.kind = "error"
        /\ (fn = "global" /\ \E k \in DOMAIN table : Unfilterable(table[k])) =>
              result.kind = "error"
        /\ result.kind = "error" => (result.rows = <<>> /\ result.cols = <<>>)

\* iris_global_query has raised on a record without an age after it had kept
\* an earlier record.
RaisedAfterKeepingARecord ==
    /\ pc = "returned"
    /\ fn = "global"
    /\ result.err = "TypeError"
    /\ processed_data # <<>>

====
